---- MODULE Spec2Model ----
(***************************************************************************)
(* Loudness meter (EBU R128 / ITU-R BS.1770 approximation).                *)
(*                                                                         *)
(*   src/script.js            worker compute engine (batch), live toggle   *)
(*   src/worklet-processor.js LoudnessProcessor (streaming engine)         *)
(*                                                                         *)
(* Numbers.  Samples are integers: sample i stands for the amplitude i*q,  *)
(* where the quantum q is the amplitude whose energy q*q sits exactly at   *)
(* the absolute gate (QuantumDb).  Energies are exact rationals [n, d] in  *)
(* units of q*q; 0/0 is NaN.  Levels (LUFS, dB, LU) are integers in        *)
(* milli-dB, with three IEEE specials (NegInf, PosInf, NaN).  Math.log10   *)
(* is a monotone step function: 10*log10 is rounded down to a whole dB.    *)
(***************************************************************************)
EXTENDS Integers, Sequences, FiniteSets, TLC

\* ---------------------------------------------------------------- bounds
\* longest signal (frames per channel) of a batch request
MaxLen == 3
\* frames delivered to one streaming session
MaxFrames == 4
\* window and hop lengths of the streaming session, in frames
MWinFrames == 2
SWinFrames == 3
HopFrames == 2
\* calls of computeFromChannels / analyzeFile in one run
MaxCalls == 2
\* clicks on the Live button in one run
MaxClicks == 3

\* sample values, in quanta
SampleValues == {-7, 0, 1}
\* sample values of a quiet channel: second channels of requests, blocks of the
\* sessions that are started and stopped
LiveValues == {0, 1}

\* ------------------------------------------------------- IEEE-754 values
NegInf == -1000000000
PosInf == 1000000000
NaN == 2000000000

IsNaN(v) == v = NaN
isFinite(v) == v # NaN /\ v # NegInf /\ v # PosInf

\* a - b
Sub(a, b) ==
  IF IsNaN(a) \/ IsNaN(b) THEN NaN
  ELSE IF a = NegInf THEN (IF b = NegInf THEN NaN ELSE NegInf)
  ELSE IF a = PosInf THEN (IF b = PosInf THEN NaN ELSE PosInf)
  ELSE IF b = NegInf THEN PosInf
  ELSE IF b = PosInf THEN NegInf
  ELSE a - b

\* a + b
Add(a, b) ==
  IF IsNaN(a) \/ IsNaN(b) THEN NaN
  ELSE IF a = NegInf THEN (IF b = PosInf THEN NaN ELSE NegInf)
  ELSE IF a = PosInf THEN (IF b = NegInf THEN NaN ELSE PosInf)
  ELSE IF b = NegInf \/ b = PosInf THEN b
  ELSE a + b

\* v * (rem / 100), 0 <= rem < 100: an infinity times 0 is NaN
MulFrac(v, rem) ==
  IF IsNaN(v) THEN NaN
  ELSE IF v = NegInf \/ v = PosInf THEN (IF rem = 0 THEN NaN ELSE v)
  ELSE (v * rem) \div 100

\* comparisons: every comparison with NaN is false
Gt(a, b) == ~IsNaN(a) /\ ~IsNaN(b) /\ a > b
Ge(a, b) == ~IsNaN(a) /\ ~IsNaN(b) /\ a >= b
Lt(a, b) == ~IsNaN(a) /\ ~IsNaN(b) /\ a < b
Le(a, b) == ~IsNaN(a) /\ ~IsNaN(b) /\ a <= b

Abs(x) == IF x < 0 THEN -x ELSE x
Max(a, b) == IF a >= b THEN a ELSE b
Min(a, b) == IF a <= b THEN a ELSE b

RECURSIVE GCD(_, _)
GCD(a, b) == IF b = 0 THEN a ELSE GCD(b, a % b)

\* ------------------------------------------------------ exact rationals
Rat(n, d) == IF d = 0 THEN [n |-> 0, d |-> 0]
             ELSE LET g == GCD(Abs(n), d) IN [n |-> n \div g, d |-> d \div g]
RatNaN == [n |-> 0, d |-> 0]
RatZero == [n |-> 0, d |-> 1]
RatIsNaN(a) == a.d = 0
RatAdd(a, b) == IF RatIsNaN(a) \/ RatIsNaN(b) THEN RatNaN
                ELSE Rat(a.n * b.d + b.n * a.d, a.d * b.d)
RatDiv(a, k) == IF RatIsNaN(a) THEN RatNaN ELSE Rat(a.n, a.d * k)

RECURSIVE RatSum(_)
RatSum(s) == IF Len(s) = 0 THEN RatZero ELSE RatAdd(RatSum(SubSeq(s, 1, Len(s) - 1)), s[Len(s)])

\* --------------------------------------------------------- Math.log10
\* 100 * 10^(k/10) for k = 0..9
DecadeTable == <<100, 126, 158, 200, 251, 316, 398, 501, 631, 794>>
\* lowest whole dB the step function distinguishes: three decades below one quantum^2
LogFloorDb == -3 * 10

Pow10(k) == <<1, 10, 100, 1000, 10000, 100000, 1000000>>[k + 1]

\* n/d >= 10^(k/10), for k >= LogFloorDb
AtLeastDb(n, d, k) ==
  LET j == k - LogFloorDb
  IN n * 100 * 1000 >= DecadeTable[(j % 10) + 1] * Pow10(j \div 10) * d

\* the largest k' = k + step*i (i >= 0) with n/d >= 10^(k'/10), given it holds at k
RECURSIVE DbSearch(_, _, _, _)
DbSearch(n, d, k, step) ==
  IF AtLeastDb(n, d, k + step) THEN DbSearch(n, d, k + step, step) ELSE k

\* 10 * Math.log10(n/d) in milli-dB: first the decade, then the dB within it
TenLog10(n, d) ==
  IF d = 0 THEN NaN
  ELSE IF n < 0 THEN NaN
  ELSE IF n = 0 THEN NegInf
  ELSE IF ~AtLeastDb(n, d, LogFloorDb) THEN 1000 * LogFloorDb
  ELSE 1000 * DbSearch(n, d, DbSearch(n, d, LogFloorDb, 10), 1)

\* a level plus a finite offset
AddOffset(v, off) == IF isFinite(v) THEN v + off ELSE v

\* --------------------------------------------------- program constants
K_OFFSET_DB == -691
ABS_GATE == -70000
\* 20*log10 of the amplitude quantum: an energy of one quantum^2 is at ABS_GATE
QuantumDb == ABS_GATE - K_OFFSET_DB


\* ------------------------------------------------------------- helpers
RECURSIVE Insert(_, _)
Insert(sorted, v) ==
  IF Len(sorted) = 0 THEN <<v>>
  ELSE IF v - Head(sorted) < 0 THEN <<v>> \o sorted
  ELSE <<Head(sorted)>> \o Insert(Tail(sorted), v)

\* arr.slice().sort((a,b)=>a-b), on finite values
RECURSIVE SortAsc(_)
SortAsc(s) == IF Len(s) = 0 THEN <<>> ELSE Insert(SortAsc(Tail(s)), Head(s))

\* arr.filter(isFinite)
FilterFinite(s) == SelectSeq(s, isFinite)

\* indices (1-based) of a sequence
Indices(s) == [i \in 1..Len(s) |-> i]

\* ================================================== worker (src/script.js)
\* 10 * Math.log10(ms) of an energy given in quanta^2
Log10x10(ms) == IF RatIsNaN(ms) THEN NaN ELSE AddOffset(TenLog10(ms.n, ms.d), QuantumDb)

lufsFromMS(ms) ==
  IF ~RatIsNaN(ms) /\ ms.n <= 0 THEN NegInf
  ELSE AddOffset(Log10x10(ms), K_OFFSET_DB)

\* maxWithIndex(arr).idx, 0-based, -1 on an empty array
RECURSIVE MaxScan(_, _, _, _)
MaxScan(arr, k, m, i) ==
  IF k > Len(arr) THEN i
  ELSE IF Gt(arr[k], m) THEN MaxScan(arr, k + 1, arr[k], k - 1)
  ELSE MaxScan(arr, k + 1, m, i)

maxWithIndex(arr) == IF Len(arr) = 0 THEN -1 ELSE MaxScan(arr, 2, arr[1], 0)

percentile(sortedArr, p) ==
  LET n == Len(sortedArr)
      num == p * (n - 1)
      lo == num \div 100
      rem == num % 100
      hi == IF rem = 0 THEN lo ELSE lo + 1
  IN IF n = 0 THEN NaN
     ELSE IF p <= 0 THEN sortedArr[1]
     ELSE IF p >= 100 THEN sortedArr[n]
     ELSE Add(sortedArr[lo + 1], MulFrac(Sub(sortedArr[hi + 1], sortedArr[lo + 1]), rem))

\* Math.max(1, Math.floor(sec * sampleRate))
WindowFrames(sec, sampleRate) == Max(1, sec * sampleRate)

\* x[i]*x[i], i 0-based; reading past the end of x gives undefined, hence NaN
SquareAt(x, i) == IF i < Len(x) THEN x[i + 1] * x[i + 1] ELSE NaN

\* Pc[k], k = 0..length: the prefix sum of the first k squares of x
RECURSIVE PrefixSum(_, _)
PrefixSum(x, k) ==
  IF k = 0 THEN 0
  ELSE LET prev == PrefixSum(x, k - 1)
           sq == SquareAt(x, k - 1)
       IN IF IsNaN(prev) \/ IsNaN(sq) THEN NaN ELSE prev + sq

\* mutant: the window loop with s + win < length
RECURSIVE WindowStartsShort(_, _, _, _)
WindowStartsShort(s, win, hop, length) ==
  IF s + win < length THEN <<s>> \o WindowStartsShort(s + hop, win, hop, length) ELSE <<>>

\* window starts s = 0, hop, 2*hop, ... while s + win <= length
RECURSIVE WindowStarts(_, _, _, _)
WindowStarts(s, win, hop, length) ==
  IF s + win <= length THEN <<s>> \o WindowStarts(s + hop, win, hop, length) ELSE <<>>

\* sumMS of the window starting at s: sum over channels of (Pc[s+win] - Pc[s]) / win
WindowMS(channels, s, win) ==
  LET sumsq(c) == Sub(PrefixSum(channels[c], s + win), PrefixSum(channels[c], s))
      bad == \E c \in 1..Len(channels) : IsNaN(sumsq(c))
  IN IF bad THEN RatNaN
     ELSE RatSum([c \in 1..Len(channels) |-> Rat(sumsq(c), win)])

\* (s + win * 0.5) / sampleRate, as the fraction n/d; d = 0 is a division by zero
WindowTime(s, win, sampleRate) == [n |-> 2 * s + win, d |-> 2 * sampleRate]

seriesLUFS(channels, sampleRate, winSec, hopSec) ==
  LET win == WindowFrames(winSec, sampleRate)
      hop == WindowFrames(hopSec, sampleRate)
      length == Len(channels[1])
      starts == WindowStarts(0, win, hop, length)
      msBlocks == [k \in 1..Len(starts) |-> WindowMS(channels, starts[k], win)]
  IN [lufs |-> [k \in 1..Len(starts) |-> lufsFromMS(msBlocks[k])],
      msBlocks |-> msBlocks,
      times |-> [k \in 1..Len(starts) |-> WindowTime(starts[k], win, sampleRate)],
      win |-> win, hop |-> hop]

\* mutant: the absolute gate with >= for >
KeptAbsIdxInclusive(lufsBlocks) ==
  LET Test(i) == Ge(lufsBlocks[i], ABS_GATE) IN SelectSeq(Indices(lufsBlocks), Test)

\* indices of the blocks kept by the absolute gate
KeptAbsIdx(lufsBlocks) ==
  LET Test(i) == Gt(lufsBlocks[i], ABS_GATE) IN SelectSeq(Indices(lufsBlocks), Test)

\* mutant: the relative-gate loop with <= for >=
KeptRelIdxBelow(lufsBlocks, relGate) ==
  LET Test(i) == Le(lufsBlocks[i], relGate) IN SelectSeq(Indices(lufsBlocks), Test)

\* indices of the blocks kept by the relative-gate loop
KeptRelIdx(lufsBlocks, relGate) ==
  LET Test(i) == Ge(lufsBlocks[i], relGate) IN SelectSeq(Indices(lufsBlocks), Test)

\* arr.reduce((a,b)=>a+b,0) / arr.length over the blocks at idx
MeanMS(msBlocks, idx) == RatDiv(RatSum([k \in 1..Len(idx) |-> msBlocks[idx[k]]]), Len(idx))

integratedLUFSFromS(msBlocks, lufsBlocks) ==
  LET keptAbs == KeptAbsIdx(lufsBlocks)
      meanAbs == MeanMS(msBlocks, keptAbs)
      prelim == AddOffset(Log10x10(meanAbs), K_OFFSET_DB)
      relGate == Sub(prelim, 10000)
      keptRel == KeptRelIdx(lufsBlocks, relGate)
      meanRel == MeanMS(msBlocks, keptRel)
  IN IF Len(msBlocks) = 0 THEN [lufsI |-> NegInf, count |-> 0, gateRel |-> NegInf]
     ELSE IF Len(keptAbs) = 0 THEN [lufsI |-> NegInf, count |-> 0, gateRel |-> NegInf]
     ELSE IF Len(keptRel) = 0 THEN [lufsI |-> prelim, count |-> Len(keptAbs), gateRel |-> relGate]
     ELSE [lufsI |-> AddOffset(Log10x10(meanRel), K_OFFSET_DB),
           count |-> Len(keptRel), gateRel |-> relGate]

\* mutant: computeLRA without its early return
computeLRANoGuard(lufsS, lufsI) ==
  LET thr == Sub(lufsI, 20000)
      Test(v) == isFinite(v) /\ Ge(v, thr)
      gated == SelectSeq(lufsS, Test)
      base == IF Len(gated) > 0 THEN gated ELSE FilterFinite(lufsS)
      sorted == SortAsc(base)
      p10 == percentile(sorted, 10)
      p95 == percentile(sorted, 95)
  IN [lra |-> Sub(p95, p10), p10 |-> p10, p95 |-> p95]

computeLRA(lufsS, lufsI) ==
  LET thr == Sub(lufsI, 20000)
      Test(v) == isFinite(v) /\ Ge(v, thr)
      gated == SelectSeq(lufsS, Test)
      base == IF Len(gated) > 0 THEN gated ELSE FilterFinite(lufsS)
      sorted == SortAsc(base)
      p10 == percentile(sorted, 10)
      p95 == percentile(sorted, 95)
  IN IF Len(lufsS) = 0 \/ ~isFinite(lufsI) THEN [lra |-> 0, p10 |-> NaN, p95 |-> NaN]
     ELSE [lra |-> Sub(p95, p10), p10 |-> p10, p95 |-> p95]

computeDR(lufsS) ==
  LET arr == SortAsc(FilterFinite(lufsS))
      p5 == percentile(arr, 5)
      p95 == percentile(arr, 95)
  IN IF Len(arr) = 0 THEN [dr |-> 0, p5 |-> NaN, p95 |-> NaN]
     ELSE [dr |-> Sub(p95, p5), p5 |-> p5, p95 |-> p95]

\* 128 * y for the Catmull-Rom point at t = k/4 between x[i] and x[i+1] (i 0-based)
CubicY128(x, i, k) ==
  LET N == Len(x)
      s0 == IF i > 0 THEN x[i] ELSE x[i + 1]
      s1 == x[i + 1]
      s2 == x[i + 2]
      s3 == IF i + 2 < N THEN x[i + 3] ELSE x[i + 2]
      a == 2 * s1
      b == -s0 + s2
      c2 == 2 * s0 - 5 * s1 + 4 * s2 - s3
      d == -s0 + 3 * s1 - 3 * s2 + s3
  IN 64 * a + 16 * b * k + 4 * c2 * k * k + d * k * k * k

\* mutant: the scan of the original samples left out
OriginalPeaksSkipped(x) == {}

\* 128 * |x[i]| over the original samples of one channel
OriginalPeaks128(x) == {128 * Abs(x[i]) : i \in 1..Len(x)}

\* 128 * |y| over the interpolated points of one channel
CubicPeaks128(x) == {Abs(CubicY128(x, i, k)) : i \in 0..(Len(x) - 2), k \in 1..3}

SetMax(S) == CHOOSE m \in S : \A v \in S : v <= m

\* the peak (times 128) that the scan of one block or channel adds to a running peak
ScanPeak128(peak, x) == SetMax({peak} \cup OriginalPeaks128(x) \cup CubicPeaks128(x))

RECURSIVE PeakOver(_, _)
PeakOver(channels, c) ==
  IF c = 0 THEN 0 ELSE ScanPeak128(PeakOver(channels, c - 1), channels[c])

\* 20 * Math.log10(peak), peak given times 128 in quanta
PeakDb(peak128) ==
  IF peak128 > 0 THEN AddOffset(2 * TenLog10(peak128, 128), QuantumDb) ELSE NegInf

truePeakLinear(channels) ==
  LET peak128 == PeakOver(channels, Len(channels))
  IN [peak128 |-> peak128, dbtp |-> PeakDb(peak128)]


\* ============================================ main thread (src/script.js)
\* mutant: the fraction taken from the upper index, frac = hi - pos
mainPercentileSwappedFrac(sortedArr, p) ==
  LET n == Len(sortedArr)
      num == p * (n - 1)
      lo == num \div 100
      rem == num % 100
      hi == IF rem = 0 THEN lo ELSE lo + 1
  IN IF n = 0 THEN NaN
     ELSE IF p <= 0 THEN sortedArr[1]
     ELSE IF p >= 100 THEN sortedArr[n]
     ELSE Add(sortedArr[lo + 1],
              MulFrac(Sub(sortedArr[hi + 1], sortedArr[lo + 1]), (100 - rem) % 100))

\* percentile(sortedArr, p) of the main thread; pos = (p/100)*(n-1) is num/100
mainPercentile(sortedArr, p) ==
  LET n == Len(sortedArr)
      num == p * (n - 1)
      lo == num \div 100
      rem == num % 100
      hi == IF rem = 0 THEN lo ELSE lo + 1
  IN IF n = 0 THEN NaN
     ELSE IF p <= 0 THEN sortedArr[1]
     ELSE IF p >= 100 THEN sortedArr[n]
     ELSE Add(sortedArr[lo + 1], MulFrac(Sub(sortedArr[hi + 1], sortedArr[lo + 1]), rem))

\* levels of the arrays handed to percentile, and the percentages asked for
LevelValues == {NegInf, -70000, -23000, 0}
PercentValues == {-10, 0, 10, 50, 95, 100, 130}

\* ascending-sorted arrays of 1..n levels
SortedArrays(n) ==
  {a \in UNION {[1..k -> LevelValues] : k \in 1..n} :
     \A i \in 1..(Len(a) - 1) : a[i] <= a[i + 1]}

\* ------------------------------------------------ batch request payloads
\* Float32Array contents of at most n frames, with samples drawn from values
SeqsOver(values, n) == UNION {[1..k -> values] : k \in 0..n}

SeqsUpTo(n) == SeqsOver(SampleValues, n)

\* channels of a compute request: no channel, one channel, or two channels of
\* equal lengths or with the second one frame short; the second channel is a
\* quiet one
ChannelSets ==
  {<<>>} \cup {<<x>> : x \in SeqsUpTo(MaxLen)}
  \cup UNION {{<<x, y>> : y \in {z \in SeqsOver(LiveValues, MaxLen) :
                                        Len(z) = Len(x) \/ Len(z) = Len(x) - 1}} :
               x \in SeqsUpTo(MaxLen)}

\* <<sampleRate, hopSec, mWindowSec, sWindowSec>> of a request: the four regular
\* combinations, then a zero sample rate, a zero hop and a zero window
WindowParams ==
  {<<1, 1, 1, 2>>, <<1, 2, 1, 2>>, <<1, 1, 2, 2>>, <<1, 2, 2, 2>>,
   <<0, 1, 1, 2>>, <<1, 0, 1, 2>>, <<1, 1, 0, 2>>}

Payloads ==
  {[channels |-> ch, sampleRate |-> w[1], hopSec |-> w[2],
    mWindowSec |-> w[3], sWindowSec |-> w[4]] : ch \in ChannelSets, w \in WindowParams}

\* the body of the try block of onmessage
ComputeResult(payload) ==
  LET channels == payload.channels
      M == seriesLUFS(channels, payload.sampleRate, payload.mWindowSec, payload.hopSec)
      S == seriesLUFS(channels, payload.sampleRate, payload.sWindowSec, payload.hopSec)
      integ == integratedLUFSFromS(M.msBlocks, M.lufs)
      lraObj == computeLRA(S.lufs, integ.lufsI)
      drObj == computeDR(S.lufs)
      tp == truePeakLinear(channels)
  IN [timesM |-> M.times, lufsM |-> M.lufs, timesS |-> S.times, lufsS |-> S.lufs,
      lufsI |-> integ.lufsI, gateRel |-> integ.gateRel,
      lra |-> lraObj.lra, lraThr |-> Sub(integ.lufsI, 20000),
      dbtp |-> tp.dbtp,
      plr |-> Sub(tp.dbtp, integ.lufsI),
      dr |-> drObj.dr,
      mMaxIdx |-> maxWithIndex(M.lufs),
      sMaxIdx |-> maxWithIndex(S.lufs)]

\* channels[0].length of seriesLUFS throws a TypeError when there is no channel
ComputeThrows(payload) == Len(payload.channels) = 0


\* ============================ LoudnessProcessor (src/worklet-processor.js)
\* processorOptions of the session, in frames: this.mWin, this.sWin, this.hop
mWin == MWinFrames
sWin == SWinFrames
hop == HopFrames
bufSize == sWin
bufMSize == mWin

\* new Float32Array(size)
ZeroBuf(size) == [i \in 1..size |-> 0]

\* for i in 0..N-1: b[(writeIdx + i) % size] = x[i]
RECURSIVE WriteCirc(_, _, _, _)
WriteCirc(b, idx, x, size) ==
  IF Len(x) = 0 THEN b
  ELSE WriteCirc([b EXCEPT ![(idx % size) + 1] = Head(x)], idx + 1, Tail(x), size)

\* mutant: the samples read forward from the write index, idx = (writeIdx + i) % size
LastSamplesFromWrite(b, idx, n, size) == [i \in 1..n |-> b[((idx + (i - 1)) % size) + 1]]

\* the last `filled` samples of one circular buffer, oldest first
LastSamples(b, idx, n, size) == [i \in 1..n |-> b[((idx - n + (i - 1) + size) % size) + 1]]

RECURSIVE SumInt(_)
SumInt(x) == IF Len(x) = 0 THEN 0 ELSE Head(x) + SumInt(Tail(x))

SumSquares(x) == SumInt([i \in 1..Len(x) |-> x[i] * x[i]])

meanSquareOverBuffer(bufs, idx, n, size) ==
  IF n <= 0 THEN RatZero
  ELSE RatSum([c \in 1..Len(bufs) |-> Rat(SumSquares(LastSamples(bufs[c], idx, n, size)), n)])

\* LoudnessProcessor.lufsFromMS
procLufsFromMS(ms) ==
  IF ~RatIsNaN(ms) /\ ms.n <= 0 THEN NegInf
  ELSE AddOffset(Log10x10(ms), K_OFFSET_DB)

\* idxMax(arr): 0-based index of the first maximum above -Infinity, else -1
RECURSIVE IdxMaxScan(_, _, _, _)
IdxMaxScan(arr, k, m, i) ==
  IF k > Len(arr) THEN i
  ELSE IF Gt(arr[k], m) THEN IdxMaxScan(arr, k + 1, arr[k], k - 1)
  ELSE IdxMaxScan(arr, k + 1, m, i)

idxMax(arr) == IdxMaxScan(arr, 1, NegInf, -1)

\* LoudnessProcessor.percentile
procPercentile(sorted, p) ==
  LET n == Len(sorted)
      num == p * (n - 1)
      lo == num \div 100
      rem == num % 100
      hi == IF rem = 0 THEN lo ELSE lo + 1
  IN IF n = 0 THEN NaN
     ELSE IF p <= 0 THEN sorted[1]
     ELSE IF p >= 100 THEN sorted[n]
     ELSE Add(sorted[lo + 1], MulFrac(Sub(sorted[hi + 1], sorted[lo + 1]), rem))

\* truePeak4xBlock(block)
truePeak4xBlock(block) == PeakDb(ScanPeak128(0, block))

\* keptAbsMS: indices of the accumulated M blocks above ABS_GATE
ProcKeptAbsIdx(lufsM) ==
  LET TestAbs(i) == Gt(lufsM[i], ABS_GATE) IN SelectSeq(Indices(lufsM), TestAbs)

\* relGateThr, given that keptAbsMS is not empty
ProcRelGateThr(msM, lufsM) ==
  Sub(AddOffset(Log10x10(MeanMS(msM, ProcKeptAbsIdx(lufsM))), K_OFFSET_DB), 10000)

\* keptRel: indices of the accumulated M blocks at or above relGateThr
ProcKeptRelIdx(lufsM, relGateThr) ==
  LET TestRel(i) == Ge(lufsM[i], relGateThr) IN SelectSeq(Indices(lufsM), TestRel)

\* mutant: the relative gate run over the blocks kept by the absolute gate only
ProcIntegratedSurvivors(msM, lufsM) ==
  LET keptAbsMS == ProcKeptAbsIdx(lufsM)
      prelim == AddOffset(Log10x10(MeanMS(msM, keptAbsMS)), K_OFFSET_DB)
      TestRel(i) == Ge(lufsM[i], Sub(prelim, 10000))
      keptRel == SelectSeq(keptAbsMS, TestRel)
  IN IF Len(keptAbsMS) = 0 THEN NegInf
     ELSE IF Len(keptRel) > 0 THEN AddOffset(Log10x10(MeanMS(msM, keptRel)), K_OFFSET_DB)
     ELSE prelim

\* "Integrated with gating over accumulated M blocks"
ProcIntegrated(msM, lufsM) ==
  LET keptAbsMS == ProcKeptAbsIdx(lufsM)
      meanAbs == MeanMS(msM, keptAbsMS)
      prelim == AddOffset(Log10x10(meanAbs), K_OFFSET_DB)
      relGateThr == Sub(prelim, 10000)
      keptRel == ProcKeptRelIdx(lufsM, relGateThr)
      meanRel == MeanMS(msM, keptRel)
  IN IF Len(keptAbsMS) = 0 THEN NegInf
     ELSE IF Len(keptRel) > 0 THEN AddOffset(Log10x10(meanRel), K_OFFSET_DB)
     ELSE prelim

\* "LRA P10..P95 on S with rel gate -20 LU from integrated"
ProcLra(lufsS, integrated) ==
  LET thr == Sub(integrated, 20000)
      Test(v) == isFinite(v) /\ Ge(v, thr)
      base == SelectSeq(lufsS, Test)
      arr == SortAsc(IF Len(base) > 0 THEN base ELSE FilterFinite(lufsS))
  IN IF Len(lufsS) = 0 THEN 0
     ELSE Sub(procPercentile(arr, 95), procPercentile(arr, 10))

ProcDr(lufsS) ==
  LET arrAll == SortAsc(FilterFinite(lufsS))
  IN IF Len(lufsS) = 0 THEN 0
     ELSE Sub(procPercentile(arrAll, 95), procPercentile(arrAll, 5))

\* the mono mixdown of the last hopN frames of the M buffers
ProcMono(bufs, idx, n) ==
  LET hopN == Min(hop, n)
  IN [i \in 1..hopN |->
        SumInt([c \in 1..Len(bufs) |->
                  bufs[c][((idx - hopN + (i - 1) + bufMSize) % bufMSize) + 1]])]

VARIABLES
  wInbox,    \* messages posted to the worker, not yet handled
  wPosted,   \* messages the worker posted back: [ok, payload, result]
  liveRunning,   \* live.running
  nodeState,     \* the worklet node and its processor: "none", "alive", "closing", "closed"
  connected,     \* source -> hp -> hs -> worklet are connected
  stopMsgs,      \* 'stop' messages posted to the processor's port, not yet handled
  buf, bufM,     \* this.buf, this.bufM: one circular buffer per channel
  writeIdx, writeIdxM, filled, filledM,
  frameCount, lastHopFrame,
  timeSec,       \* this.timeSec, in frames (seconds * sampleRate)
  acc,           \* this.acc: timesM, lufsM, msM, timesS, lufsS
  emitted,       \* number of 'metrics' records posted on the port
  metrics,       \* the last 'metrics' record posted, <<>> before the first
  nAlloc,        \* history: frames delivered since the buffers were allocated
  recent,        \* history: per channel, the last (at most bufSize) samples of those
  peakIn,        \* history: largest |sample| delivered to the processor so far
  pct,           \* the last percentile calls and what the three copies returned
  calls,         \* computeFromChannels / analyzeFile calls: payload, promise state, value
  listeners,     \* calls whose onMsg is registered as 'message' listener of the worker
  clicks,        \* clicks on the Live button so far
  startPc,       \* start branches of toggleLive, in click order: "media", "module", "done", "failed"
  liveRef,       \* the start whose ctx, stream and nodes `live` holds, 0 for null
  streamOn,      \* starts whose MediaStream has tracks that were not stopped
  ctxOpen,       \* starts whose AudioContext was created and not closed
  nodeOn         \* starts whose worklet node is connected

workerVars == <<wInbox, wPosted>>
procVars == <<buf, bufM, writeIdx, writeIdxM, filled, filledM, frameCount,
              lastHopFrame, timeSec, acc, emitted, metrics, nAlloc, recent, peakIn>>
liveVars == <<liveRunning, nodeState, connected, stopMsgs>>
callVars == <<calls, listeners>>
toggleVars == <<clicks, startPc, liveRef, streamOn, ctxOpen, nodeOn>>
mainVars == <<pct, callVars, toggleVars>>
vars == <<workerVars, liveVars, procVars, mainVars>>

EmptyAcc == [timesM |-> <<>>, lufsM |-> <<>>, timesS |-> <<>>, lufsS |-> <<>>, msM |-> <<>>]

\* the fields the constructor sets (writeIdx, filled, ... are set with the buffers)
InitProc ==
  /\ buf = <<>> /\ bufM = <<>>
  /\ writeIdx = 0 /\ writeIdxM = 0 /\ filled = 0 /\ filledM = 0
  /\ frameCount = 0 /\ lastHopFrame = 0 /\ timeSec = 0
  /\ acc = EmptyAcc
  /\ emitted = 0 /\ metrics = <<>>
  /\ nAlloc = 0 /\ recent = <<>> /\ peakIn = 0

InitLive == liveRunning = FALSE /\ nodeState = "none" /\ connected = FALSE /\ stopMsgs = 0

InitWorker == wInbox = <<>> /\ wPosted = <<>>

InitToggle ==
  /\ clicks = 0 /\ startPc = <<>> /\ liveRef = 0
  /\ streamOn = {} /\ ctxOpen = {} /\ nodeOn = {}

InitMain == pct = <<>> /\ calls = <<>> /\ listeners = {} /\ InitToggle

Init == InitWorker /\ InitLive /\ InitProc /\ InitMain

\* computeFromChannels / analyzeFile: w.postMessage({type: 'compute', payload})
PostCompute ==
  /\ Len(wInbox) = 0 /\ Len(wPosted) = 0
  /\ \E payload \in Payloads : wInbox' = Append(wInbox, payload)
  /\ UNCHANGED <<wPosted, liveVars, procVars, mainVars>>

\* worker onmessage, try block ran to its postMessage
WorkerComputeOk ==
  /\ Len(wInbox) > 0
  /\ ~ComputeThrows(Head(wInbox))
  /\ wPosted' = Append(wPosted, [ok |-> TRUE, payload |-> Head(wInbox),
                                 result |-> ComputeResult(Head(wInbox))])
  /\ wInbox' = Tail(wInbox)
  /\ UNCHANGED <<liveVars, procVars, mainVars>>

\* worker onmessage, catch block
WorkerComputeError ==
  /\ Len(wInbox) > 0
  /\ ComputeThrows(Head(wInbox))
  /\ wPosted' = Append(wPosted, [ok |-> FALSE, payload |-> Head(wInbox), result |-> <<>>])
  /\ wInbox' = Tail(wInbox)
  /\ UNCHANGED <<liveVars, procVars, mainVars>>

NextBatch == PostCompute \/ WorkerComputeOk \/ WorkerComputeError

SpecBatch == Init /\ [][NextBatch]_vars

\* ------------------------------------------------------- live session
\* blocks the audio graph can deliver: c channels of N frames each
InputBlocks(N, values, counts) == UNION {[1..c -> [1..N -> values]] : c \in counts}

\* toggleLive, start branch: the node is created with a fresh processor and connected
ToggleLiveStart ==
  /\ ~liveRunning /\ nodeState = "none"
  /\ liveRunning' = TRUE /\ nodeState' = "alive" /\ connected' = TRUE
  /\ UNCHANGED <<stopMsgs, workerVars, procVars, mainVars>>

\* toggleLive, stop branch: post 'stop', disconnect the nodes, close the context
ToggleLiveStop ==
  /\ liveRunning
  /\ stopMsgs' = stopMsgs + 1
  /\ connected' = FALSE
  /\ liveRunning' = FALSE /\ nodeState' = "closing"
  /\ UNCHANGED <<workerVars, procVars, mainVars>>

\* ctx.close() completes: the processor is called no more
ContextClosed ==
  /\ nodeState = "closing"
  /\ nodeState' = "closed"
  /\ UNCHANGED <<liveRunning, connected, stopMsgs, workerVars, procVars, mainVars>>

\* this.port.onmessage of the processor: 'stop' is a no-op
OnStopMessage ==
  /\ stopMsgs > 0 /\ nodeState \in {"alive", "closing"}
  /\ stopMsgs' = stopMsgs - 1
  /\ UNCHANGED <<liveRunning, nodeState, connected, workerVars, procVars, mainVars>>

\* the record posted at a hop: the histories and the M buffers are those after the
\* block was written and the hop appended; current is the value just pushed
HopRecord(accNew, bufsM, idxM, nM, integrated) ==
  [M |-> [current |-> accNew.lufsM[Len(accNew.lufsM)], maxIdx |-> idxMax(accNew.lufsM)],
   S |-> [current |-> accNew.lufsS[Len(accNew.lufsS)], maxIdx |-> idxMax(accNew.lufsS)],
   integrated |-> integrated,
   lra |-> ProcLra(accNew.lufsS, integrated),
   dr |-> ProcDr(accNew.lufsS),
   dbtp |-> truePeak4xBlock(ProcMono(bufsM, idxM, nM))]

\* acc after the push of one hop at time t
AccPush(a, t, msM, msS) ==
  [timesM |-> Append(a.timesM, t),
   lufsM |-> Append(a.lufsM, procLufsFromMS(msM)),
   msM |-> Append(a.msM, msM),
   timesS |-> Append(a.timesS, t),
   lufsS |-> Append(a.lufsS, procLufsFromMS(msS))]

\* the last (at most n) elements of a sequence
LastOf(x, n) == SubSeq(x, Max(1, Len(x) - n + 1), Len(x))

\* the histories of the blocks handed to process
InputHistory(input, realloc) ==
  /\ nAlloc' = (IF realloc THEN 0 ELSE nAlloc) + Len(input[1])
  /\ recent' = [c \in 1..Len(input) |->
                  LastOf((IF realloc THEN <<>> ELSE recent[c]) \o input[c], bufSize)]
  /\ peakIn' = SetMax({peakIn} \cup {Abs(input[c][i]) : c \in 1..Len(input), i \in 1..Len(input[1])})

\* mutant: the hop test with > for >=
HopReachedStrict(frames, last) == frames - last > hop

\* (this.frameCount - this.lastHopFrame) >= this.hop
HopReached(frames, last) == frames - last >= hop

\* process(inputs) with a non-empty input
Process(input) ==
  LET nCh == Len(input)
      N == Len(input[1])
      realloc == Len(buf) # nCh
      buf0 == IF realloc THEN [c \in 1..nCh |-> ZeroBuf(bufSize)] ELSE buf
      bufM0 == IF realloc THEN [c \in 1..nCh |-> ZeroBuf(bufMSize)] ELSE bufM
      w0 == IF realloc THEN 0 ELSE writeIdx
      wM0 == IF realloc THEN 0 ELSE writeIdxM
      f0 == IF realloc THEN 0 ELSE filled
      fM0 == IF realloc THEN 0 ELSE filledM
  IN /\ buf' = [c \in 1..nCh |-> WriteCirc(buf0[c], w0, input[c], bufSize)]
     /\ bufM' = [c \in 1..nCh |-> WriteCirc(bufM0[c], wM0, input[c], bufMSize)]
     /\ writeIdx' = (w0 + N) % bufSize
     /\ writeIdxM' = (wM0 + N) % bufMSize
     /\ filled' = Min(f0 + N, bufSize)
     /\ filledM' = Min(fM0 + N, bufMSize)
     /\ frameCount' = frameCount + N
     /\ timeSec' = timeSec + N
     /\ InputHistory(input, realloc)
     /\ IF HopReached(frameCount', lastHopFrame)
        THEN /\ lastHopFrame' = frameCount'
             /\ \E msM \in {meanSquareOverBuffer(bufM', writeIdxM', filledM', bufMSize)} :
                \E msS \in {meanSquareOverBuffer(buf', writeIdx', filled', bufSize)} :
                  /\ acc' = AccPush(acc, timeSec', msM, msS)
                  /\ \E integrated \in {ProcIntegrated(acc'.msM, acc'.lufsM)} :
                       metrics' = HopRecord(acc', bufM', writeIdxM', filledM', integrated)
             /\ emitted' = emitted + 1
        ELSE UNCHANGED <<lastHopFrame, acc, metrics, emitted>>

\* the audio graph delivers a block to the connected processor
Deliver(values, counts) ==
  /\ nodeState \in {"alive", "closing"} /\ connected
  /\ \E N \in 1..(MaxFrames - frameCount) :
       \E input \in InputBlocks(N, values, counts) : Process(input)
  /\ UNCHANGED <<workerVars, liveVars, mainVars>>

DeliverBlock == Deliver(SampleValues, {1, 2})

DeliverMonoBlock == Deliver(LiveValues, {1})

\* process(inputs) of a disconnected node: the input has no channel, return true
DeliverNothing ==
  /\ nodeState \in {"alive", "closing"} /\ ~connected
  /\ UNCHANGED vars

\* a running session: the engine under every block sequence
Next == ToggleLiveStart \/ DeliverBlock

Spec == Init /\ [][Next]_vars

\* the life of a session, start to stop, under mono blocks
NextLive ==
  \/ ToggleLiveStart \/ ToggleLiveStop \/ ContextClosed
  \/ OnStopMessage \/ DeliverMonoBlock \/ DeliverNothing

SpecLive == Init /\ [][NextLive]_vars

\* ------------------------------------------- calls on the shared worker
\* the signals of the calls: none, silence, a loud mono signal, a quiet stereo one
CallChannels == {<<>>, <<<<0, 0>>>>, <<<<1, -7>>>>, <<<<1, 1>>, <<1, 1>>>>}

CallPayloads ==
  {[channels |-> ch, sampleRate |-> 1, hopSec |-> 1, mWindowSec |-> 1, sWindowSec |-> 2] :
     ch \in CallChannels}

\* computeFromChannels / analyzeFile up to the await: the promise is created, its
\* onMsg is added to the worker's 'message' listeners, the request is posted
CallCompute ==
  /\ Len(calls) < MaxCalls
  /\ \E payload \in CallPayloads :
       /\ calls' = Append(calls, [payload |-> payload, status |-> "pending", value |-> <<>>])
       /\ wInbox' = Append(wInbox, payload)
  /\ listeners' = listeners \cup {Len(calls) + 1}
  /\ UNCHANGED <<wPosted, liveVars, procVars, pct, toggleVars>>

\* onMsg of one call on a message of the worker: resolve on ok, reject on ok === false
OnMsg(call, data) ==
  [call EXCEPT !.status = IF data.ok THEN "resolved" ELSE "rejected", !.value = data.result]

\* the main thread dispatches one message of the worker to every registered
\* listener; each listener removes itself and settles its promise
DispatchMessage ==
  /\ Len(wPosted) > 0 /\ Len(calls) > 0
  /\ calls' = [i \in 1..Len(calls) |->
                 IF i \in listeners THEN OnMsg(calls[i], Head(wPosted)) ELSE calls[i]]
  /\ listeners' = {}
  /\ wPosted' = Tail(wPosted)
  /\ UNCHANGED <<wInbox, liveVars, procVars, pct, toggleVars>>

NextCalls == CallCompute \/ WorkerComputeOk \/ WorkerComputeError \/ DispatchMessage

SpecCalls == Init /\ [][NextCalls]_vars

\* ------------------------------------------- clicks on the Live button
\* what a step of toggleLive leaves alone besides the live object
ToggleFrame == UNCHANGED <<nodeState, connected, stopMsgs, workerVars, procVars, pct, callVars>>

\* toggleLive with live.running false: the start branch runs up to
\* await navigator.mediaDevices.getUserMedia(...)
ToggleLiveBegin ==
  /\ clicks < MaxClicks /\ ~liveRunning
  /\ clicks' = clicks + 1
  /\ startPc' = Append(startPc, "media")
  /\ UNCHANGED <<liveRunning, liveRef, streamOn, ctxOpen, nodeOn>>
  /\ ToggleFrame

\* getUserMedia resolves: the stream is live, the AudioContext is created, the
\* start runs up to await ctx.audioWorklet.addModule(...)
UserMediaResolved ==
  /\ \E i \in 1..Len(startPc) :
       /\ startPc[i] = "media"
       /\ startPc' = [startPc EXCEPT ![i] = "module"]
       /\ streamOn' = streamOn \cup {i}
       /\ ctxOpen' = ctxOpen \cup {i}
  /\ UNCHANGED <<clicks, liveRunning, liveRef, nodeOn>>
  /\ ToggleFrame

\* getUserMedia rejects (permission denied): catch, alert
UserMediaRejected ==
  /\ \E i \in 1..Len(startPc) :
       /\ startPc[i] = "media"
       /\ startPc' = [startPc EXCEPT ![i] = "failed"]
  /\ UNCHANGED <<clicks, liveRunning, liveRef, streamOn, ctxOpen, nodeOn>>
  /\ ToggleFrame

\* addModule resolves: the nodes are created and connected, and
\* live = { ctx, stream, workletNode, hp, hs, running: true }
AddModuleResolved ==
  /\ \E i \in 1..Len(startPc) :
       /\ startPc[i] = "module"
       /\ startPc' = [startPc EXCEPT ![i] = "done"]
       /\ nodeOn' = nodeOn \cup {i}
       /\ liveRef' = i
  /\ liveRunning' = TRUE
  /\ UNCHANGED <<clicks, streamOn, ctxOpen>>
  /\ ToggleFrame

\* addModule rejects: catch, alert; the stream and the context are left as they are
AddModuleRejected ==
  /\ \E i \in 1..Len(startPc) :
       /\ startPc[i] = "module"
       /\ startPc' = [startPc EXCEPT ![i] = "failed"]
  /\ UNCHANGED <<clicks, liveRunning, liveRef, streamOn, ctxOpen, nodeOn>>
  /\ ToggleFrame

\* toggleLive with live.running true: the stop branch, on what `live` holds
ToggleLiveEnd ==
  /\ clicks < MaxClicks /\ liveRunning
  /\ clicks' = clicks + 1
  /\ nodeOn' = nodeOn \ {liveRef}
  /\ streamOn' = streamOn \ {liveRef}
  /\ ctxOpen' = ctxOpen \ {liveRef}
  /\ liveRef' = 0 /\ liveRunning' = FALSE
  /\ UNCHANGED startPc
  /\ ToggleFrame

NextToggle ==
  \/ ToggleLiveBegin \/ UserMediaResolved \/ UserMediaRejected
  \/ AddModuleResolved \/ AddModuleRejected \/ ToggleLiveEnd

SpecToggle == Init /\ [][NextToggle]_vars

\* --------------------------------------------------- percentile calls
\* one call of each copy of percentile at p and at q, p <= q, on one sorted array
CallPercentile ==
  /\ pct = <<>>
  /\ \E sorted \in SortedArrays(MaxLen) : \E p, q \in PercentValues :
       /\ p <= q
       /\ pct' = [sorted |-> sorted, p |-> p, q |-> q,
                  main |-> <<mainPercentile(sorted, p), mainPercentile(sorted, q)>>,
                  worker |-> <<percentile(sorted, p), percentile(sorted, q)>>,
                  worklet |-> <<procPercentile(sorted, p), procPercentile(sorted, q)>>]
  /\ UNCHANGED <<workerVars, liveVars, procVars, callVars, toggleVars>>

NextPercentile == CallPercentile

SpecPercentile == Init /\ [][NextPercentile]_vars

\* ================================================================ claims
\* the messages the worker has posted
Posted == {wPosted[k] : k \in 1..Len(wPosted)}
PostedOk == {m \in Posted : m.ok}

\* sum of a function over a finite index set, as a rational
RECURSIVE RatSumOver(_, _)
RatSumOver(f, S) ==
  IF S = {} THEN RatZero
  ELSE LET i == CHOOSE j \in S : TRUE IN RatAdd(f[i], RatSumOver(f, S \ {i}))

\* the level of the mean energy of the blocks in S
MeanLevel(msBlocks, S) ==
  AddOffset(Log10x10(RatDiv(RatSumOver(msBlocks, S), Cardinality(S))), K_OFFSET_DB)

\* blocks passing the absolute gate, and those passing the relative gate as well
PassAbs(lufsBlocks) == {i \in 1..Len(lufsBlocks) : Gt(lufsBlocks[i], ABS_GATE)}
PassBoth(lufsBlocks, relGate) == {i \in PassAbs(lufsBlocks) : Ge(lufsBlocks[i], relGate)}

\* a request the batch interface accepts: channels of one length, a positive
\* sample rate, positive window and hop lengths
ValidRequest(payload) ==
  /\ Len(payload.channels) >= 1
  /\ \A c \in 1..Len(payload.channels) : Len(payload.channels[c]) = Len(payload.channels[1])
  /\ payload.sampleRate > 0 /\ payload.hopSec > 0
  /\ payload.mWindowSec > 0 /\ payload.sWindowSec > 0

\* the Momentary and Short-term series of a request, and its gate result
SeriesM(payload) ==
  seriesLUFS(payload.channels, payload.sampleRate, payload.mWindowSec, payload.hopSec)
SeriesS(payload) ==
  seriesLUFS(payload.channels, payload.sampleRate, payload.sWindowSec, payload.hopSec)
GateOf(payload) == integratedLUFSFromS(SeriesM(payload).msBlocks, SeriesM(payload).lufs)

\* C1: the integrated loudness and the retained-block count of a batch result come
\* from exactly the Momentary blocks that pass the absolute gate (> -70) and the
\* relative gate (>= preliminary - 10): a block failing the absolute gate
\* contributes neither to the mean nor to the count.
C1_BothGatesOnly ==
  \A m \in PostedOk :
    LET r == m.result
        g == GateOf(m.payload)
        both == PassBoth(r.lufsM, r.gateRel)
    IN ValidRequest(m.payload) /\ both # {} =>
         /\ g.count = Cardinality(both)
         /\ r.lufsI = MeanLevel(SeriesM(m.payload).msBlocks, both)

\* C2: whenever the integrated loudness is not finite the reported LRA is 0, in the
\* batch result and in every record of the streaming engine.
C2_LraZeroWhenNotFinite ==
  /\ \A m \in PostedOk : ~isFinite(m.result.lufsI) => m.result.lra = 0
  /\ emitted > 0 /\ ~isFinite(metrics.integrated) => metrics.lra = 0

\* frame count at the last emission, read from the history (0 before the first)
FramesAtLastEmission ==
  IF Len(acc.timesM) = 0 THEN 0 ELSE acc.timesM[Len(acc.timesM)]

\* C3: a block delivery emits a record iff the frame counter has advanced by at
\* least hop frames since the last emission (since the start for the first); it
\* emits at most one record, and a delivery short of the hop emits nothing and
\* appends nothing to the histories.
C3_OneRecordPerHop ==
  [][frameCount' # frameCount =>
       /\ emitted' \in {emitted, emitted + 1}
       /\ (emitted' = emitted + 1) <=> (frameCount' - FramesAtLastEmission >= hop)
       /\ emitted' = emitted => acc' = acc /\ metrics' = metrics
       /\ emitted' = emitted + 1 =>
            /\ Len(acc'.lufsM) = Len(acc.lufsM) + 1
            /\ Len(acc'.lufsS) = Len(acc.lufsS) + 1]_vars

\* C3 witness: a record was emitted and a later delivery fell short of the hop
C3_Witness == emitted >= 1 /\ frameCount > FramesAtLastEmission

\* C4: the linear true peak of a batch result is at least the absolute value of
\* every original sample of every channel, and the dB peak at least the dB of the
\* largest absolute sample.
C4_PeakCoversSamples ==
  \A m \in PostedOk :
    \A c \in 1..Len(m.payload.channels) :
      \A i \in 1..Len(m.payload.channels[c]) :
        /\ truePeakLinear(m.payload.channels).peak128 >= 128 * Abs(m.payload.channels[c][i])
        /\ Ge(m.result.dbtp, PeakDb(128 * Abs(m.payload.channels[c][i])))

\* C4 witness: a result whose peak lies on an interpolated point, above every sample
C4_Witness ==
  \E m \in PostedOk :
    /\ isFinite(m.result.dbtp)
    /\ \A c \in 1..Len(m.payload.channels) :
         \A i \in 1..Len(m.payload.channels[c]) :
           truePeakLinear(m.payload.channels).peak128 > 128 * Abs(m.payload.channels[c][i])

\* a request whose channels are all silent, of one length, at least one S window
SilentSignal(payload) ==
  LET ch == payload.channels
  IN /\ Len(ch) >= 1
     /\ \A c \in 1..Len(ch) : Len(ch[c]) = Len(ch[1]) /\ \A i \in 1..Len(ch[c]) : ch[c][i] = 0
     /\ Len(ch[1]) >= WindowFrames(payload.sWindowSec, payload.sampleRate)

\* C5: a silent signal of at least one Short-term window, of any channel count,
\* gets a result (not an error) with integrated loudness < -60, true peak < -60,
\* LRA <= 1 and both series present.
C5_SilenceResult ==
  \A m \in Posted :
    SilentSignal(m.payload) =>
      /\ m.ok
      /\ Lt(m.result.lufsI, -60000)
      /\ Lt(m.result.dbtp, -60000)
      /\ Le(m.result.lra, 1000)
      /\ Len(m.result.lufsS) >= 1
      /\ Len(m.result.lufsM) = Len(m.result.timesM)
      /\ Len(m.result.lufsS) = Len(m.result.timesS)

\* C5 witness: a two-channel silent signal was measured
C5_Witness ==
  \E m \in Posted : SilentSignal(m.payload) /\ Len(m.payload.channels) = 2 /\ m.ok

\* C6: the absolute gate discards every Momentary block at or below -70 (exactly
\* -70 and negative infinity included): the preliminary mean is that of the blocks
\* above -70 alone, and when no block is above -70, or the series is empty, the
\* gate returns negative infinity with a retained count of 0, in the batch gate and
\* in the streaming gate, as a value and not as an error.
C6_AbsoluteGate ==
  \A m \in Posted :
    Len(m.payload.channels) >= 1 =>
      LET M == SeriesM(m.payload)
          g == GateOf(m.payload)
          pass == PassAbs(M.lufs)
      IN /\ m.ok /\ m.result.lufsI = g.lufsI
         /\ pass = {} =>
              /\ g.lufsI = NegInf /\ g.count = 0 /\ g.gateRel = NegInf
              /\ ProcIntegrated(M.msBlocks, M.lufs) = NegInf
         /\ pass # {} => g.gateRel = Sub(MeanLevel(M.msBlocks, pass), 10000)

\* C6 witness: every block was discarded, one exactly at -70 and one at negative
\* infinity
C6_Witness ==
  \E m \in PostedOk :
    /\ PassAbs(m.result.lufsM) = {}
    /\ \E i \in 1..Len(m.result.lufsM) : m.result.lufsM[i] = ABS_GATE
    /\ \E i \in 1..Len(m.result.lufsM) : m.result.lufsM[i] = NegInf
    /\ m.result.lufsI = NegInf

\* C7: when the Short-term series has no finite value the reported DR is 0, in the
\* batch result and in every record of the streaming engine.
C7_DrZeroWithoutFinite ==
  /\ \A m \in PostedOk : FilterFinite(m.result.lufsS) = <<>> => m.result.dr = 0
  /\ emitted > 0 /\ FilterFinite(acc.lufsS) = <<>> => metrics.dr = 0

\* C8: once stop was requested and the processor has taken the 'stop' message,
\* the engine is idle: buffers, histories and counters are discarded.
C8_StopDiscardsState ==
  nodeState = "closing" /\ stopMsgs = 0 =>
    /\ buf = <<>> /\ bufM = <<>>
    /\ acc = EmptyAcc
    /\ frameCount = 0 /\ lastHopFrame = 0

\* C9: a request with channels of unequal lengths, or a non-positive sample rate,
\* window or hop, ends in ok: false and no result.
C9_InvalidInputFails ==
  \A m \in Posted : ~ValidRequest(m.payload) => ~m.ok

\* the naive energy of the window at s: sum over channels of the mean square
NaiveMS(channels, s, win) ==
  Rat(SumInt([c \in 1..Len(channels) |->
                SumInt([i \in 1..win |-> channels[c][s + i] * channels[c][s + i]])]), win)

\* one series against the windows of the signal
SeriesMatches(payload, series, winSec) ==
  LET win == WindowFrames(winSec, payload.sampleRate)
      hopF == WindowFrames(payload.hopSec, payload.sampleRate)
      length == Len(payload.channels[1])
      starts == {s \in 0..length : s % hopF = 0 /\ s + win <= length}
      n == Cardinality(starts)
  IN /\ Len(series.msBlocks) = n /\ Len(series.lufs) = n /\ Len(series.times) = n
     /\ \A k \in 1..n :
          LET s == (k - 1) * hopF
          IN /\ s \in starts
             /\ series.msBlocks[k] = NaiveMS(payload.channels, s, win)
             /\ series.times[k].n = 2 * s + win
             /\ series.times[k].d = 2 * payload.sampleRate
             /\ series.times[k].n >= 0 /\ series.times[k].n <= 2 * length
     /\ \A k \in 1..(n - 1) : series.times[k].n < series.times[k + 1].n

\* C10: the batch energy series has exactly one entry per window start
\* s = 0, hop, 2*hop, ... with s + win <= length (none when length < win); its
\* energy is the naive sum over channels of the mean square over [s, s+win), its
\* timestamp the window centre (s + win/2)/sampleRate, so timestamps increase
\* strictly and lie within [0, duration], that of the maximum included.
C10_SeriesPerWindow ==
  \A m \in PostedOk :
    LET r == m.result
        pl == m.payload
    IN Len(pl.channels) >= 1 /\ pl.sampleRate > 0
       /\ (\A c \in 1..Len(pl.channels) : Len(pl.channels[c]) = Len(pl.channels[1])) =>
         /\ SeriesMatches(pl, SeriesM(pl), pl.mWindowSec)
         /\ SeriesMatches(pl, SeriesS(pl), pl.sWindowSec)
         /\ r.timesM = SeriesM(pl).times /\ r.timesS = SeriesS(pl).times
         /\ r.mMaxIdx >= 0 => r.timesM[r.mMaxIdx + 1].n <= 2 * Len(pl.channels[1])
         /\ r.sMaxIdx >= 0 => r.timesS[r.sMaxIdx + 1].n <= 2 * Len(pl.channels[1])

\* C10 witness: two windows a hop of two frames apart, and a signal shorter than
\* its Short-term window
C10_Witness ==
  \E m \in PostedOk :
    /\ ValidRequest(m.payload) /\ m.payload.hopSec = 2
    /\ Len(m.result.timesM) = 2 /\ Len(m.result.timesS) = 1
    /\ m.result.mMaxIdx = 1

\* what the three copies returned at p and at q
PctResults == {pct.main, pct.worker, pct.worklet}

\* the property of one pair of results on the array of the call
PctOrdered(r) ==
  /\ pct.p = 0 => r[1] = pct.sorted[1]
  /\ pct.q = 100 => r[2] = pct.sorted[Len(pct.sorted)]
  /\ Le(r[1], r[2])

\* C11 as stated: for every non-empty ascending-sorted array, percentile at 0 is
\* the first element, at 100 the last, and percentile at p is at most percentile at
\* q for p <= q, in each of the three copies.
C11_PercentileAnyArray ==
  pct # <<>> => \A r \in PctResults : PctOrdered(r)

\* C11 amended: the same for every non-empty ascending-sorted array of finite
\* values, in each of the three copies.
C11_PercentileFinite ==
  pct # <<>> /\ (\A i \in 1..Len(pct.sorted) : isFinite(pct.sorted[i])) =>
    \A r \in PctResults : PctOrdered(r)

\* C11 witness: a finite array of three distinct values, asked between two order
\* statistics and at the top
C11_Witness ==
  /\ pct # <<>>
  /\ pct.sorted = <<-70000, -23000, 0>> /\ pct.p = 10 /\ pct.q = 100
  /\ pct.main[1] > -70000 /\ pct.main[1] < -23000 /\ pct.main[2] = 0

\* C12: in streaming mode the true peak of every emitted record covers the whole
\* history, per channel: it is at least 20*log10 of the largest |sample| of any
\* channel delivered so far, and so never decreases from one record to the next.
C12_TruePeakOverHistory ==
  [][emitted' = emitted + 1 =>
       /\ Ge(metrics'.dbtp, PeakDb(128 * peakIn'))
       /\ emitted >= 1 => Ge(metrics'.dbtp, metrics.dbtp)]_vars

\* the energy of the last n delivered frames: sum over channels of the mean square
RecentMS(n) ==
  Rat(SumInt([c \in 1..Len(recent) |-> SumSquares(LastOf(recent[c], n))]), n)

\* b holds, behind the write index w, the last n delivered samples x
HoldsRecent(b, w, n, size, x) ==
  \A i \in 1..n : b[((w - i + size) % size) + 1] = x[Len(x) - i + 1]

\* C13: after any sequence of block deliveries of any sizes (blocks longer than a
\* window included), each circular buffer holds the most recent min(n, size)
\* delivered samples, with 0 <= writeIdx < size and filled = min(n, size), n being
\* the frames delivered since the buffers were allocated; and at each emission the
\* Momentary and Short-term energies are the sum over channels of the mean square
\* of exactly the last min(n, window) delivered samples.
C13_RingHoldsRecent ==
  buf # <<>> =>
    /\ writeIdx \in 0..(bufSize - 1) /\ writeIdxM \in 0..(bufMSize - 1)
    /\ filled = Min(nAlloc, bufSize) /\ filledM = Min(nAlloc, bufMSize)
    /\ Len(buf) = Len(recent) /\ Len(bufM) = Len(recent)
    /\ \A c \in 1..Len(recent) :
         /\ Len(recent[c]) = Min(nAlloc, bufSize)
         /\ HoldsRecent(buf[c], writeIdx, filled, bufSize, recent[c])
         /\ HoldsRecent(bufM[c], writeIdxM, filledM, bufMSize, recent[c])
    /\ emitted > 0 /\ lastHopFrame = frameCount =>
         /\ acc.msM[Len(acc.msM)] = RecentMS(Min(nAlloc, mWin))
         /\ acc.lufsS[Len(acc.lufsS)] = procLufsFromMS(RecentMS(Min(nAlloc, sWin)))

\* C13 witness: the only emission came after more frames than the Short-term
\* buffer holds, so a block at least as long as the window has wrapped both
\* buffers, and the Momentary window is not silent
C13_Witness ==
  /\ emitted = 1 /\ lastHopFrame = frameCount /\ frameCount = nAlloc
  /\ nAlloc > bufSize /\ writeIdx # 0
  /\ acc.msM[1] # RatZero /\ acc.lufsS[1] # acc.lufsM[1]

\* C14: the integrated loudness of every record of the streaming engine is the
\* lufsI that the batch gate integratedLUFSFromS returns on the Momentary history
\* (energies and loudness values) accumulated up to that emission.
C14_StreamingGateIsBatchGate ==
  emitted > 0 => metrics.integrated = integratedLUFSFromS(acc.msM, acc.lufsM).lufsI

\* C14 witness: a history of two blocks, the first at or below the absolute gate
\* and not silent, the second above it; the relative gate keeps both
C14_Witness ==
  /\ emitted = 2 /\ isFinite(metrics.integrated)
  /\ isFinite(acc.lufsM[1]) /\ Le(acc.lufsM[1], ABS_GATE) /\ Gt(acc.lufsM[2], ABS_GATE)
  /\ integratedLUFSFromS(acc.msM, acc.lufsM).count = 2

\* C15: whenever at least one Momentary block passes the absolute gate, at least
\* one block passes the relative gate as well: the fallback branch is not taken,
\* the retained count is at least 1 and the integrated loudness is finite, in the
\* batch gate and in the streaming gate.
C15_FallbackNeverTaken ==
  \A m \in PostedOk :
    LET M == SeriesM(m.payload)
        g == GateOf(m.payload)
    IN PassAbs(M.lufs) # {} =>
         /\ Len(KeptRelIdx(M.lufs, g.gateRel)) >= 1
         /\ g.count >= 1 /\ g.count = Len(KeptRelIdx(M.lufs, g.gateRel))
         /\ isFinite(g.lufsI) /\ m.result.lufsI = g.lufsI
         /\ Len(ProcKeptRelIdx(M.lufs, ProcRelGateThr(M.msBlocks, M.lufs))) >= 1
         /\ isFinite(ProcIntegrated(M.msBlocks, M.lufs))

\* C15 witness: the relative gate drops a block that passed the absolute gate,
\* and keeps another
C15_Witness ==
  \E m \in PostedOk :
    /\ ValidRequest(m.payload)
    /\ \E i \in PassAbs(m.result.lufsM) : ~Ge(m.result.lufsM[i], m.result.gateRel)
    /\ GateOf(m.payload).count >= 1 /\ isFinite(m.result.lufsI)

\* C16: when two compute requests are outstanding on the shared worker, each
\* call's promise resolves with the result computed from its own channels, never
\* with the result or the error of the other request.
C16_OwnResultOnly ==
  \A i \in 1..Len(calls) :
    /\ calls[i].status = "resolved" =>
         /\ ~ComputeThrows(calls[i].payload)
         /\ calls[i].value = ComputeResult(calls[i].payload)
    /\ calls[i].status = "rejected" => ComputeThrows(calls[i].payload)

\* the capture sessions with something active: a live stream, an open context
\* or a connected worklet node
ActiveSessions == streamOn \cup ctxOpen \cup nodeOn

\* live mode was on and has been toggled off, and no start is under way
ToggledOff ==
  /\ ~liveRunning
  /\ \E i \in 1..Len(startPc) : startPc[i] = "done"
  /\ \A i \in 1..Len(startPc) : startPc[i] \in {"done", "failed"}

\* C17: after any sequence of clicks on the Live button, a click during a start
\* that still awaits the microphone permission or the worklet module included, at
\* most one capture session is active, and once live mode has been toggled off
\* every session that was started is stopped (tracks stopped, context closed).
C17_OneSessionCleanStop ==
  /\ Cardinality(ActiveSessions) <= 1
  /\ ToggledOff => ActiveSessions = {}

====
